---- MODULE Spec2Model ----
\* A state-machine model of rust_audio_visualiser: the Tap (components/tap.rs),
\* the analysis thread, the bar mapper and the iced update loop (main.rs).
\*
\* Numbers.  f32 values are fixed-point integers:
\*   - samples and magnitudes are counted in units of 1/RawScale, so that a
\*     magnitude m divided by fft_size is the integer m \div BUFFER_SIZE;
\*   - decibels are whole decibels;
\*   - bar heights are counted in units of 1/HScale.
\* BUFFER_SIZE (2048 in the source) and DEFAULT_NUM_BARS (75 in the source)
\* are scaled down; every definition below is written for any value of them.
EXTENDS Integers, Sequences, FiniteSets, TLC

\* ------------------------------------------------------------------ bounds
BUFFER_SIZE == 2
DEFAULT_NUM_BARS == 3
MaxSessions == 2
MaxAudioData == 2
MaxBins == 3

\* ------------------------------------------------------ program constants
MIN_DECIBEL == -90
MAX_DECIBEL == -10
RawScale == 10 ^ 5
HScale == 10 * 10
MIN_BAR_HEIGHT == 4 * HScale
MAX_DISPLAY_HEIGHT == 150 * HScale
DECAY_STEP == 8 * HScale
SMOOTHING_NUM == 1 + 1
SMOOTHING_DEN == 2 * 5

None == 0

\* ---------------------------------------------------------------- helpers
Abs(x) == IF x < 0 THEN -x ELSE x
MinOf(a, b) == IF a < b THEN a ELSE b
MaxOf(a, b) == IF a > b THEN a ELSE b
Clamp(x, lo, hi) == MaxOf(lo, MinOf(x, hi))

RECURSIVE SumSeq(_)
SumSeq(s) == IF s = <<>> THEN 0 ELSE Head(s) + SumSeq(Tail(s))

Repeat(x, n) == [i \in 1..n |-> x]

\* floor(log10(n)) for n >= 1
RECURSIVE Log10Floor(_)
Log10Floor(n) == IF n < 10 THEN 0 ELSE 1 + Log10Floor(n \div 10)

\* All sequences over S of length <= n
SeqsUpTo(S, n) == UNION {[1..k -> S] : k \in 0..n}

\* ------------------------------------------------------------------ state
VARIABLES
  is_playing,      \* AudioVisualizer.is_playing
  is_loaded,       \* AudioVisualizer.is_loaded
  is_decaying,     \* AudioVisualizer.is_decaying
  audio_data,      \* the VecDeque inside Arc<Mutex<..>>: the shared spectrum slot
  mutex,           \* who holds audio_data's lock: None, an analysis thread's session id or UiThread
  frequency_data,  \* the displayed bars
  sink,            \* Option<Sink>: None or the session whose sink it is
  file_path,       \* Option<String>: None or a path
  tap_sender,      \* Option<Sender>: None or the session whose channel the clone sends on
  audio_receiver,  \* Option<Receiver>: None or a session
  ui,              \* the UI thread: "idle", "tick_lock" (waiting in lock()), "tick_hold" (holding the guard), "tick_update" (guard dropped, update_frequency_data not yet run) or "panicked"
  maybe_mags,      \* the Tick handler's local maybe_mags: <<>> for None, else the drained vector
  decay_ticks,     \* decay-branch ticks handled since the last Play (capped at DecayBound)
  fed,             \* an AudioData message was handled after a decay tick of the decay under way
  left_playing,    \* the decay under way began by leaving Playing with a bar above MIN_BAR_HEIGHT
  audio_msgs,      \* AudioData messages the environment may still send
  canvas_cache,    \* canvas::Cache: <<>> when cleared, else the bars drawn into it
  n_sessions,      \* successful loads so far
  sessions,        \* per load: its sink, Tap, channel and analysis thread
  decoded,         \* the file system: what Decoder yields for each path
  mapper           \* a call of group_frequencies_into_bars on its own: input, result

vars == <<is_playing, is_loaded, is_decaying, audio_data, mutex, frequency_data,
          sink, file_path, tap_sender, audio_receiver, ui, maybe_mags,
          decay_ticks, fed, left_playing, audio_msgs, canvas_cache, n_sessions,
          sessions, decoded, mapper>>

\* the fields of AudioVisualizer only the UI thread touches, and the Tick
\* handler's local
appVars == <<is_playing, is_loaded, is_decaying, frequency_data, sink,
             file_path, tap_sender, audio_receiver, canvas_cache, maybe_mags>>
\* history and environment
auxVars == <<decay_ticks, fed, left_playing, audio_msgs, decoded, mapper>>
envVars == <<audio_msgs, decoded, mapper>>

SessionIds == 1..MaxSessions
HalfSize == BUFFER_SIZE \div 2

\* A session slot no load has filled yet.
NoSession ==
  [sink |-> "none", tap |-> "none", src |-> <<>>, pos |-> 0, buf |-> <<>>,
   ended |-> FALSE, returned |-> <<>>, sent |-> <<>>, queue |-> <<>>,
   send_err |-> 0, rx |-> FALSE, pc |-> "none", samples |-> <<>>,
   magnitudes |-> <<>>]

\* ------------------------------------------------------------- the Tap
\* Tap::new(source, sender) appended to a sink; the analysis thread not yet started.
NewTap(source, sinkstate) ==
  [NoSession EXCEPT !.sink = sinkstate, !.tap = "alive", !.src = source, !.rx = TRUE]

\* Sender::send on the session's channel: queued while the receiver lives,
\* Err(SendError) otherwise; the Tap drops the result (let _ =).
ChannelSend(t, full) == IF t.rx THEN Append(t.queue, full) ELSE t.queue
\* the Err results counted
SendErrors(t) == IF t.rx THEN t.send_err ELSE t.send_err + 1

\* A Tap that unwraps the send result: the playback thread panics when the receiver is gone.
TapNextUnwrap(t) ==
  IF t.pos < Len(t.src)
  THEN LET sample == t.src[t.pos + 1]
           pushed == Append(t.buf, sample)
       IN IF Len(pushed) >= BUFFER_SIZE
          THEN IF t.rx
               THEN [t EXCEPT !.pos = @ + 1, !.buf = <<>>,
                              !.queue = ChannelSend(t, pushed),
                              !.sent = Append(@, pushed),
                              !.returned = Append(@, sample)]
               ELSE [t EXCEPT !.pos = @ + 1, !.buf = <<>>, !.tap = "panicked",
                              !.sent = Append(@, pushed)]
          ELSE [t EXCEPT !.pos = @ + 1, !.buf = pushed,
                         !.returned = Append(@, sample)]
  ELSE [t EXCEPT !.ended = TRUE]

\* A Tap that returns the sample only once its window is complete (the first of the window).
TapNextDelayed(t) ==
  IF t.pos < Len(t.src)
  THEN LET sample == t.src[t.pos + 1]
           pushed == Append(t.buf, sample)
       IN IF Len(pushed) >= BUFFER_SIZE
          THEN [t EXCEPT !.pos = @ + 1, !.buf = <<>>,
                         !.queue = ChannelSend(t, pushed),
                         !.send_err = SendErrors(t),
                         !.sent = Append(@, pushed),
                         !.returned = Append(@, pushed[1])]
          ELSE [t EXCEPT !.pos = @ + 1, !.buf = pushed,
                         !.returned = Append(@, sample)]
  ELSE [t EXCEPT !.ended = TRUE]

\* A Tap that flushes its partial window when the stream ends.
TapNextFlush(t) ==
  IF t.pos < Len(t.src)
  THEN LET sample == t.src[t.pos + 1]
           pushed == Append(t.buf, sample)
       IN IF Len(pushed) >= BUFFER_SIZE
          THEN [t EXCEPT !.pos = @ + 1, !.buf = <<>>,
                         !.queue = ChannelSend(t, pushed),
                         !.send_err = SendErrors(t),
                         !.sent = Append(@, pushed),
                         !.returned = Append(@, sample)]
          ELSE [t EXCEPT !.pos = @ + 1, !.buf = pushed,
                         !.returned = Append(@, sample)]
  ELSE IF t.buf # <<>>
       THEN [t EXCEPT !.ended = TRUE, !.buf = <<>>,
                      !.queue = ChannelSend(t, t.buf), !.sent = Append(@, t.buf)]
       ELSE [t EXCEPT !.ended = TRUE]

\* Tap::next: one call, as a function of the session.  returned collects the
\* Some(sample) results, ended records a None result, sent collects every
\* Vec handed to sender.send.
TapNext(t) ==
  IF t.pos < Len(t.src)
  THEN LET sample == t.src[t.pos + 1]
           pushed == Append(t.buf, sample)
       IN IF Len(pushed) >= BUFFER_SIZE
          THEN [t EXCEPT !.pos = @ + 1, !.buf = <<>>,
                         !.queue = ChannelSend(t, pushed),
                         !.send_err = SendErrors(t),
                         !.sent = Append(@, pushed),
                         !.returned = Append(@, sample)]
          ELSE [t EXCEPT !.pos = @ + 1, !.buf = pushed,
                         !.returned = Append(@, sample)]
  ELSE [t EXCEPT !.ended = TRUE]

\* The playback thread pulls the next sample of session s through its Tap.
\* A sink pulls its source only while it plays; after None the source is not
\* pulled again.
Pull(s) ==
  /\ ui # "panicked"
  /\ sessions[s].tap = "alive"
  /\ sessions[s].sink = "playing"
  /\ ~sessions[s].ended
  /\ sessions' = [sessions EXCEPT ![s] = TapNext(sessions[s])]
  /\ UNCHANGED <<appVars, auxVars, audio_data, mutex, ui, n_sessions>>

\* ------------------------------------------------- the analysis thread's maths
\* |X_k| of the forward DFT of a real window (fft.process, then c.norm()),
\* in the two shapes where it has a closed form in integers:
\* a constant window c,c,..,c has X_0 = n*c and every other bin 0; a window
\* with a single non-zero sample a has |X_k| = |a| in every bin.  The decoded
\* streams of this model are made of such windows, and no other shape is given
\* a value.
FftNorm(samples, k) ==
  LET nonzero == {i \in 1..Len(samples) : samples[i] # 0}
  IN CASE \A i \in 1..Len(samples) : samples[i] = samples[1] ->
            IF k = 0 THEN Abs(SumSeq(samples)) ELSE 0
       [] Cardinality(nonzero) = 1 ->
            Abs(samples[CHOOSE i \in nonzero : TRUE])

\* samples[..BUFFER_SIZE] -> complex buffer -> FFT -> the first BUFFER_SIZE / 2 norms
Magnitudes(samples) ==
  [k \in 1..HalfSize |-> FftNorm(SubSeq(samples, 1, BUFFER_SIZE), k - 1)]

\* ------------------------------------------------------------ the bar mapper
\* 20 * log10(raw) in whole decibels, raw > 0 counted in 1/RawScale; exact on
\* the decades 1, 10, 100, ... the model's magnitudes are drawn from.
Decibels(raw) == 20 * (Log10Floor(raw) - Log10Floor(RawScale))

\* map_range, multiplying before dividing
map_range(value, from_min, from_max, to_min, to_max) ==
  LET from_range == from_max - from_min
      to_range == to_max - to_min
  IN to_min + ((value - from_min) * to_range) \div from_range

\* the closure body of group_frequencies_into_bars for one selected magnitude
BarHeight(magnitude) ==
  LET raw == magnitude \div BUFFER_SIZE
      db == IF raw > 0 THEN Clamp(Decibels(raw), MIN_DECIBEL, MAX_DECIBEL)
            ELSE MIN_DECIBEL
      h == map_range(db, MIN_DECIBEL, MAX_DECIBEL, MIN_BAR_HEIGHT, MAX_DISPLAY_HEIGHT)
  IN MaxOf(h, MIN_BAR_HEIGHT)

half_bars == (DEFAULT_NUM_BARS + 1) \div 2

\* idx of bar i (bars and bins counted from 0), for total_bins >= 1
BarIndex(i, total_bins) ==
  LET interval == total_bins \div half_bars
  IN MinOf((i % half_bars) * interval, total_bins - 1)

\* total_bins - 1 underflows for an empty vector: a debug build panics on the
\* subtraction, a release build wraps it, gets idx = 0 and panics on
\* magnitudes[0].  Either way the call does not return.
MapperPanics(magnitudes) == Len(magnitudes) = 0

\* group_frequencies_into_bars, when it returns
group_frequencies_into_bars(magnitudes) ==
  [i \in 1..DEFAULT_NUM_BARS |->
     BarHeight(magnitudes[BarIndex(i - 1, Len(magnitudes)) + 1])]

\* ------------------------------------------------------ the evolution engine
\* old * SMOOTHING + new * (1.0 - SMOOTHING)
Smooth(old, new) ==
  (old * SMOOTHING_NUM + new * (SMOOTHING_DEN - SMOOTHING_NUM)) \div SMOOTHING_DEN

\* update_frequency_data's loop over frequency_data zipped with new_bars
SmoothBars(bars, new_bars) ==
  [i \in 1..Len(bars) |->
     IF i <= Len(new_bars) THEN Smooth(bars[i], new_bars[i]) ELSE bars[i]]

\* a decay step without the floor
DecayBarNoFloor(h) == h - DECAY_STEP

\* (*h - 8.0).max(MIN_BAR_HEIGHT)
DecayBar(h) == MaxOf(h - DECAY_STEP, MIN_BAR_HEIGHT)

DecayBars(bars) == [i \in 1..Len(bars) |-> DecayBar(bars[i])]

\* a test that also counts bars resting on the floor
AnyAtLeast(bars) == \E i \in 1..Len(bars) : bars[i] >= MIN_BAR_HEIGHT

\* any_above
AnyAbove(bars) == \E i \in 1..Len(bars) : bars[i] > MIN_BAR_HEIGHT

\* ----------------------------------------------------- the playback thread
\* A dropped Tap: its fields (and what the model remembers of its calls) are gone.
DroppedTap(t) ==
  [t EXCEPT !.tap = "dropped", !.src = <<>>, !.pos = 0, !.buf = <<>>,
            !.returned = <<>>, !.sent = <<>>, !.send_err = 0]

\* The sink lets go of its source once the source returned None or the sink
\* was stopped or dropped; the Tap's Sender and accumulator go with it.
DropTap(s) ==
  /\ ui # "panicked"
  /\ sessions[s].tap = "alive"
  /\ sessions[s].ended \/ sessions[s].sink = "stopped"
  /\ sessions' = [sessions EXCEPT ![s] = DroppedTap(@)]
  /\ UNCHANGED <<appVars, auxVars, audio_data, mutex, ui, n_sessions>>

\* ----------------------------------------------------- the analysis thread
\* The channel of session s has two senders: the one moved into the Tap and
\* the clone stored in tap_sender.  recv() fails once both are gone and the
\* queue is empty.
Disconnected(s) == sessions[s].tap # "alive" /\ tap_sender # s

\* while let Ok(samples) = receiver.recv(): a window arrives; it is
\* transformed when it holds at least BUFFER_SIZE samples.
AnalyzerRecv(s) ==
  /\ ui # "panicked"
  /\ sessions[s].pc = "recv"
  /\ sessions[s].queue # <<>>
  /\ LET samples == Head(sessions[s].queue)
     IN sessions' = [sessions EXCEPT
          ![s].queue = Tail(@),
          ![s].samples = samples,
          ![s].magnitudes =
             IF Len(samples) >= BUFFER_SIZE THEN Magnitudes(samples) ELSE <<>>,
          ![s].pc = IF Len(samples) >= BUFFER_SIZE THEN "lock" ELSE "recv"]
  /\ UNCHANGED <<appVars, auxVars, audio_data, mutex, ui, n_sessions>>

\* recv() returns Err: the loop ends, the thread ends, the Receiver is dropped.
AnalyzerExit(s) ==
  /\ ui # "panicked"
  /\ sessions[s].pc = "recv"
  /\ sessions[s].queue = <<>>
  /\ Disconnected(s)
  /\ sessions' = [sessions EXCEPT ![s].pc = "done", ![s].rx = FALSE,
                                  ![s].samples = <<>>, ![s].magnitudes = <<>>]
  /\ UNCHANGED <<appVars, auxVars, audio_data, mutex, ui, n_sessions>>

\* an analysis thread that goes on to write without taking the mutex
AnalyzerNoLock(s) ==
  /\ ui # "panicked"
  /\ sessions[s].pc = "lock"
  /\ sessions' = [sessions EXCEPT ![s].pc = "clear"]
  /\ UNCHANGED <<appVars, auxVars, audio_data, mutex, ui, n_sessions>>

\* audio_data.lock(): waits until the mutex is free, then holds it.
AnalyzerLock(s) ==
  /\ ui # "panicked"
  /\ sessions[s].pc = "lock"
  /\ mutex = None
  /\ mutex' = s
  /\ sessions' = [sessions EXCEPT ![s].pc = "clear"]
  /\ UNCHANGED <<appVars, auxVars, audio_data, ui, n_sessions>>

\* data_buffer.clear()
AnalyzerClear(s) ==
  /\ ui # "panicked"
  /\ sessions[s].pc = "clear"
  /\ audio_data' = <<>>
  /\ sessions' = [sessions EXCEPT ![s].pc = "extend"]
  /\ UNCHANGED <<appVars, auxVars, mutex, ui, n_sessions>>

\* data_buffer.extend(magnitudes); the guard goes out of scope.
AnalyzerExtend(s) ==
  /\ ui # "panicked"
  /\ sessions[s].pc = "extend"
  /\ audio_data' = audio_data \o sessions[s].magnitudes
  /\ mutex' = IF mutex = s THEN None ELSE mutex
  /\ sessions' = [sessions EXCEPT ![s].pc = "recv", ![s].samples = <<>>,
                                  ![s].magnitudes = <<>>]
  /\ UNCHANGED <<appVars, auxVars, ui, n_sessions>>

\* ------------------------------------------------------------ the UI thread
Paths == {1}
\* load_audio_file's four fallible calls (output stream, sink, file open,
\* decoder): all four return Ok, or one of them fails; whichever fails, no
\* field has been assigned yet
Outcomes == {"ok", "failed"}

\* the model stops creating sessions after MaxSessions successful loads
CanLoad == n_sessions < MaxSessions

\* Sink::play, Sink::pause, Sink::stop (dropping a Sink stops it too)
SinkPlay(ss, s) == [ss EXCEPT ![s].sink = IF @ = "paused" THEN "playing" ELSE @]
SinkPause(ss, s) == [ss EXCEPT ![s].sink = IF @ = "playing" THEN "paused" ELSE @]
\* A stopped sink never pulls its source again: the model forgets where the
\* Tap stood; the Tap itself, and its Sender, live on until DropTap.
SinkStop(ss, s) ==
  [ss EXCEPT ![s] = [@ EXCEPT !.sink = "stopped", !.src = <<>>, !.pos = 0,
                              !.buf = <<>>, !.ended = FALSE,
                              !.returned = <<>>, !.sent = <<>>,
                              !.send_err = 0]]

\* start_audio_analysis: audio_receiver.take() moves the Receiver into a new thread
start_audio_analysis(t) == [t EXCEPT !.pc = "recv"]

\* a load that marks the file loaded before the decoder has accepted it
load_audio_file_early(path, ss, outcome) ==
  IF path = None
  THEN [sink |-> sink, tap_sender |-> tap_sender, is_loaded |-> is_loaded,
        n_sessions |-> n_sessions, sessions |-> ss]
  ELSE IF outcome # "ok"
  THEN [sink |-> sink, tap_sender |-> tap_sender, is_loaded |-> TRUE,
        n_sessions |-> n_sessions, sessions |-> ss]
  ELSE LET new == n_sessions + 1
           old == IF sink = None THEN ss ELSE SinkStop(ss, sink)
       IN [sink |-> new, tap_sender |-> new, is_loaded |-> TRUE,
           n_sessions |-> new,
           sessions |-> [old EXCEPT ![new] =
                           start_audio_analysis(NewTap(decoded[path], "paused"))]]

\* load_audio_file with file_path = path, from sessions ss: the fields it
\* leaves behind.  audio_receiver is set and taken again within the call.
load_audio_file(path, ss, outcome) ==
  IF path = None \/ outcome # "ok"
  THEN [sink |-> sink, tap_sender |-> tap_sender, is_loaded |-> is_loaded,
        n_sessions |-> n_sessions, sessions |-> ss]
  ELSE LET new == n_sessions + 1
           old == IF sink = None THEN ss ELSE SinkStop(ss, sink)
       IN [sink |-> new, tap_sender |-> new, is_loaded |-> TRUE,
           n_sessions |-> new,
           sessions |-> [old EXCEPT ![new] =
                           start_audio_analysis(NewTap(decoded[path], "paused"))]]

\* Message::LoadFile: the dialog yields a path or is cancelled
LoadFile ==
  /\ ui = "idle"
  /\ \E pick \in Paths \cup {None}, outcome \in Outcomes :
       IF pick = None
       THEN outcome = "ok" /\ UNCHANGED vars
       ELSE /\ outcome = "ok" => CanLoad
            /\ LET r == load_audio_file(pick, sessions, outcome)
               IN /\ file_path' = pick
                  /\ sink' = r.sink
                  /\ tap_sender' = r.tap_sender
                  /\ is_loaded' = r.is_loaded
                  /\ n_sessions' = r.n_sessions
                  /\ sessions' = r.sessions
            /\ UNCHANGED <<is_playing, is_decaying, frequency_data,
                           audio_receiver, canvas_cache, auxVars, audio_data,
                           mutex, ui,
                           maybe_mags>>

\* a Play that starts the sink and sets is_playing but leaves is_decaying as it was
PlayKeepsDecay ==
  /\ ui = "idle"
  /\ \E outcome \in Outcomes :
       LET attempt == sink = None /\ file_path # None
           r == IF attempt THEN load_audio_file(file_path, sessions, outcome)
                ELSE load_audio_file(None, sessions, outcome)
       IN /\ IF attempt THEN (outcome = "ok" => CanLoad) ELSE outcome = "ok"
          /\ sink' = r.sink
          /\ tap_sender' = r.tap_sender
          /\ is_loaded' = r.is_loaded
          /\ n_sessions' = r.n_sessions
          /\ IF r.sink # None
             THEN /\ sessions' = SinkPlay(r.sessions, r.sink)
                  /\ is_playing' = TRUE
                  /\ decay_ticks' = 0
                  /\ fed' = FALSE
                  /\ left_playing' = FALSE
             ELSE /\ sessions' = r.sessions
                  /\ UNCHANGED <<is_playing, decay_ticks, fed, left_playing>>
  /\ UNCHANGED <<is_decaying, frequency_data, file_path, audio_receiver,
                 canvas_cache, audio_msgs, decoded, mapper, audio_data, mutex, ui,
                 maybe_mags>>

\* Message::Play
Play ==
  /\ ui = "idle"
  /\ \E outcome \in Outcomes :
       LET attempt == sink = None /\ file_path # None
           r == IF attempt THEN load_audio_file(file_path, sessions, outcome)
                ELSE load_audio_file(None, sessions, outcome)
       IN /\ IF attempt THEN (outcome = "ok" => CanLoad) ELSE outcome = "ok"
          /\ sink' = r.sink
          /\ tap_sender' = r.tap_sender
          /\ is_loaded' = r.is_loaded
          /\ n_sessions' = r.n_sessions
          /\ IF r.sink # None
             THEN /\ sessions' = SinkPlay(r.sessions, r.sink)
                  /\ is_playing' = TRUE
                  /\ is_decaying' = FALSE
                  /\ decay_ticks' = 0
                  /\ fed' = FALSE
                  /\ left_playing' = FALSE
             ELSE /\ sessions' = r.sessions
                  /\ UNCHANGED <<is_playing, is_decaying, decay_ticks, fed,
                                 left_playing>>
  /\ UNCHANGED <<frequency_data, file_path, audio_receiver, canvas_cache,
                 audio_msgs, decoded, mapper, audio_data, mutex, ui,
                 maybe_mags>>

\* playback is Playing and some bar stands above MIN_BAR_HEIGHT
LeavesPlaying == is_playing /\ AnyAbove(frequency_data)

\* Message::Pause
Pause ==
  /\ ui = "idle"
  /\ IF sink # None
     THEN /\ sessions' = SinkPause(sessions, sink)
          /\ is_playing' = FALSE
          /\ is_decaying' = TRUE
          /\ left_playing' = (left_playing \/ LeavesPlaying)
     ELSE UNCHANGED <<sessions, is_playing, is_decaying, left_playing>>
  /\ UNCHANGED <<is_loaded, frequency_data, sink, file_path, tap_sender,
                 audio_receiver, canvas_cache, decay_ticks, fed, envVars,
                 audio_data, mutex, ui, n_sessions,
                 maybe_mags>>

\* a Stop that stops the sink and starts the decay but leaves is_playing set
StopKeepsPlaying ==
  /\ ui = "idle"
  /\ \E outcome \in Outcomes :
       LET stopped == IF sink # None THEN SinkStop(sessions, sink) ELSE sessions
           r == load_audio_file(file_path, stopped, outcome)
       IN /\ IF file_path # None THEN (outcome = "ok" => CanLoad) ELSE outcome = "ok"
          /\ sink' = r.sink
          /\ tap_sender' = r.tap_sender
          /\ is_loaded' = r.is_loaded
          /\ n_sessions' = r.n_sessions
          /\ sessions' = r.sessions
  /\ is_decaying' = TRUE
  /\ left_playing' = (left_playing \/ LeavesPlaying)
  /\ UNCHANGED <<is_playing, frequency_data, file_path, audio_receiver,
                 canvas_cache, decay_ticks, fed, envVars, audio_data, mutex, ui,
                 maybe_mags>>

\* Message::Stop
Stop ==
  /\ ui = "idle"
  /\ \E outcome \in Outcomes :
       LET stopped == IF sink # None THEN SinkStop(sessions, sink) ELSE sessions
           r == load_audio_file(file_path, stopped, outcome)
       IN /\ IF file_path # None THEN (outcome = "ok" => CanLoad) ELSE outcome = "ok"
          /\ sink' = r.sink
          /\ tap_sender' = r.tap_sender
          /\ is_loaded' = r.is_loaded
          /\ n_sessions' = r.n_sessions
          /\ sessions' = r.sessions
  /\ is_playing' = FALSE
  /\ is_decaying' = TRUE
  /\ left_playing' = (left_playing \/ LeavesPlaying)
  /\ UNCHANGED <<frequency_data, file_path, audio_receiver, canvas_cache,
                 decay_ticks, fed, envVars, audio_data, mutex, ui,
                 maybe_mags>>

\* update_frequency_data: the bars it leaves (canvas_cache.clear() is the caller's conjunct)
update_frequency_data(bars, magnitudes) ==
  SmoothBars(bars, group_frequencies_into_bars(magnitudes))

\* what an AudioData message may carry
MagValues == {0, BUFFER_SIZE, BUFFER_SIZE * 10 ^ 3, BUFFER_SIZE * 10 ^ 5}
AudioInputs == {<<>>, <<BUFFER_SIZE * 10 ^ 5>>, <<BUFFER_SIZE * 10 ^ 3, 0>>}

\* Message::AudioData(data)
AudioData ==
  /\ ui = "idle"
  /\ audio_msgs > 0
  /\ audio_msgs' = audio_msgs - 1
  /\ \E data \in AudioInputs :
       IF MapperPanics(data)
       THEN ui' = "panicked" /\ UNCHANGED <<frequency_data, canvas_cache, fed>>
       ELSE /\ frequency_data' = update_frequency_data(frequency_data, data)
            /\ canvas_cache' = <<>>
            /\ fed' = (fed \/ decay_ticks > 0)
            /\ UNCHANGED ui
  /\ UNCHANGED <<is_playing, is_loaded, is_decaying, sink, file_path,
                 tap_sender, audio_receiver, decay_ticks, left_playing,
                 decoded, mapper, audio_data, mutex, n_sessions, sessions,
                 maybe_mags>>

\* subscription(): Tick is delivered only while this holds
SubscriptionActive == is_playing \/ is_decaying

DecayBound == (MAX_DISPLAY_HEIGHT - MIN_BAR_HEIGHT + DECAY_STEP - 1) \div DECAY_STEP

\* a Tick that lets the bars decay when it finds the slot empty
TickWithLockDecays ==
  /\ IF audio_data # <<>>
     THEN /\ audio_data' = <<>>
          /\ maybe_mags' = audio_data
          /\ ui' = "tick_update"
          /\ UNCHANGED frequency_data
     ELSE /\ frequency_data' = DecayBars(frequency_data)
          /\ ui' = "idle"
          /\ UNCHANGED <<audio_data, maybe_mags>>
  /\ UNCHANGED <<is_playing, is_loaded, is_decaying, sink, file_path,
                 tap_sender, audio_receiver, canvas_cache, auxVars, mutex,
                 n_sessions, sessions>>

\* a Tick that copies the slot's content and leaves it in the slot
TickWithLockKeeps ==
  /\ IF audio_data # <<>>
     THEN /\ maybe_mags' = audio_data
          /\ ui' = "tick_update"
          /\ UNCHANGED audio_data
     ELSE /\ ui' = "idle"
          /\ UNCHANGED <<audio_data, maybe_mags>>
  /\ UNCHANGED <<is_playing, is_loaded, is_decaying, frequency_data, sink,
                 file_path, tap_sender, audio_receiver, canvas_cache, auxVars,
                 mutex, n_sessions, sessions>>

\* Tick, is_playing branch, the block of maybe_mags from the moment lock()
\* has returned: the guard is read, drained into maybe_mags when non-empty,
\* and dropped at the end of the block. With None the handler has nothing
\* left to do and returns.
TickWithLock ==
  /\ IF audio_data # <<>>
     THEN /\ audio_data' = <<>>
          /\ maybe_mags' = audio_data
          /\ ui' = "tick_update"
     ELSE /\ ui' = "idle"
          /\ UNCHANGED <<audio_data, maybe_mags>>
  /\ UNCHANGED <<is_playing, is_loaded, is_decaying, frequency_data, sink,
                 file_path, tap_sender, audio_receiver, canvas_cache, auxVars,
                 mutex, n_sessions, sessions>>

\* Tick, is_playing branch, after the guard is dropped: `if let Some(mags)`
\* calls update_frequency_data, which smooths the drained vector into the
\* bars and clears the canvas cache; the handler returns.
TickUpdate ==
  /\ ui = "tick_update"
  /\ frequency_data' = update_frequency_data(frequency_data, maybe_mags)
  /\ canvas_cache' = <<>>
  /\ maybe_mags' = <<>>
  /\ ui' = "idle"
  /\ UNCHANGED <<is_playing, is_loaded, is_decaying, sink, file_path,
                 tap_sender, audio_receiver, auxVars, audio_data, mutex,
                 n_sessions, sessions>>

\* Message::Tick while is_playing, the mutex free: lock() returns at once
TickPlaying ==
  /\ ui = "idle"
  /\ SubscriptionActive
  /\ is_playing
  /\ mutex = None
  /\ TickWithLock

\* Message::Tick while is_playing, the mutex held by an analysis thread:
\* the UI thread waits inside lock()
TickBlocks ==
  /\ ui = "idle"
  /\ SubscriptionActive
  /\ is_playing
  /\ mutex # None
  /\ ui' = "tick_lock"
  /\ UNCHANGED <<appVars, auxVars, audio_data, mutex, n_sessions, sessions>>

\* the mutex is released: lock() returns and the handler goes on
TickResumes ==
  /\ ui = "tick_lock"
  /\ mutex = None
  /\ TickWithLock

\* Message::Tick while not playing and is_decaying
TickDecay ==
  /\ ui = "idle"
  /\ SubscriptionActive
  /\ ~is_playing
  /\ is_decaying
  /\ frequency_data' = DecayBars(frequency_data)
  /\ is_decaying' = AnyAbove(DecayBars(frequency_data))
  /\ decay_ticks' = IF AnyAbove(DecayBars(frequency_data))
                    THEN MinOf(decay_ticks + 1, DecayBound)
                    ELSE 0
  /\ fed' = (fed /\ AnyAbove(DecayBars(frequency_data)))
  /\ left_playing' = (left_playing /\ AnyAbove(DecayBars(frequency_data)))
  /\ UNCHANGED <<is_playing, is_loaded, sink, file_path, tap_sender,
                 audio_receiver, canvas_cache, audio_msgs,
                 decoded, mapper, audio_data, mutex, ui, n_sessions, sessions,
                 maybe_mags>>

\* ---- the is_playing branch of Tick with its critical section in two steps
\* the UI thread as a holder of the mutex
UiThread == MaxSessions + 1

\* self.audio_data.lock() returns, at once or after a wait: the guard is held
TickLock ==
  /\ \/ ui = "idle" /\ SubscriptionActive /\ is_playing
     \/ ui = "tick_lock"
  /\ mutex = None
  /\ mutex' = UiThread
  /\ ui' = "tick_hold"
  /\ UNCHANGED <<appVars, auxVars, audio_data, n_sessions, sessions>>

\* is_empty / drain under the guard, the guard dropped at the end of the
\* block; update_frequency_data on what was drained is TickUpdate
TickRelease ==
  /\ ui = "tick_hold"
  /\ mutex = UiThread
  /\ mutex' = None
  /\ IF audio_data # <<>>
     THEN /\ audio_data' = <<>>
          /\ maybe_mags' = audio_data
          /\ ui' = "tick_update"
     ELSE /\ ui' = "idle"
          /\ UNCHANGED <<audio_data, maybe_mags>>
  /\ UNCHANGED <<is_playing, is_loaded, is_decaying, frequency_data, sink,
                 file_path, tap_sender, audio_receiver, canvas_cache, auxVars,
                 n_sessions, sessions>>

\* view() -> VisualizerCanvas::draw: cache.draw runs the closure only when the cache is empty
Draw ==
  /\ ui = "idle"
  /\ canvas_cache = <<>>
  /\ canvas_cache' = frequency_data
  /\ UNCHANGED <<is_playing, is_loaded, is_decaying, frequency_data, sink,
                 file_path, tap_sender, audio_receiver, auxVars, audio_data,
                 mutex, ui, n_sessions, sessions,
                 maybe_mags>>

\* --------------------------------------------- the Tap with an arbitrary peer
\* whoever holds the Receiver takes a window, or drops the Receiver
PeerRecv(s) ==
  /\ sessions[s].pc = "none"
  /\ sessions[s].rx
  /\ sessions[s].queue # <<>>
  /\ sessions' = [sessions EXCEPT ![s].queue = Tail(@)]
  /\ UNCHANGED <<appVars, auxVars, audio_data, mutex, ui, n_sessions>>

PeerDrop(s) ==
  /\ sessions[s].pc = "none"
  /\ sessions[s].rx
  /\ sessions' = [sessions EXCEPT ![s].rx = FALSE, ![s].queue = <<>>]
  /\ UNCHANGED <<appVars, auxVars, audio_data, mutex, ui, n_sessions>>

\* ------------------------------------------------- the bar mapper on its own
CallMapper ==
  /\ mapper.pc = "ready"
  /\ mapper' = IF MapperPanics(mapper.input)
               THEN [mapper EXCEPT !.pc = "panicked"]
               ELSE [mapper EXCEPT !.pc = "returned",
                                   !.bars = group_frequencies_into_bars(mapper.input)]
  /\ UNCHANGED <<appVars, audio_data, mutex, ui, decay_ticks, fed,
                 left_playing, audio_msgs, n_sessions, sessions, decoded>>

\* ------------------------------------------------------------ initial states
Quiet == 5 + 5
\* a constant window, then a window with one non-zero sample
FileStream ==
  Repeat(Quiet, BUFFER_SIZE) \o (<<BUFFER_SIZE>> \o Repeat(0, BUFFER_SIZE - 1))
\* a single constant window
OneWindow == Repeat(Quiet, BUFFER_SIZE)

NoMapper == [input |-> <<>>, pc |-> "idle", bars |-> <<>>]

\* impl Default for AudioVisualizer, before any thread exists
InitApp ==
  /\ is_playing = FALSE
  /\ is_loaded = FALSE
  /\ is_decaying = FALSE
  /\ audio_data = <<>>
  /\ mutex = None
  /\ frequency_data = Repeat(MIN_BAR_HEIGHT, DEFAULT_NUM_BARS)
  /\ sink = None
  /\ file_path = None
  /\ tap_sender = None
  /\ audio_receiver = None
  /\ canvas_cache = <<>>
  /\ ui = "idle"
  /\ maybe_mags = <<>>
  /\ decay_ticks = 0
  /\ fed = FALSE
  /\ left_playing = FALSE

Init ==
  /\ InitApp
  /\ n_sessions = 0
  /\ sessions = [s \in SessionIds |-> NoSession]
  /\ decoded = [p \in Paths |-> FileStream]
  /\ audio_msgs = 0
  /\ mapper = NoMapper

Next ==
  \/ LoadFile
  \/ Play
  \/ Pause
  \/ Stop
  \/ TickPlaying
  \/ TickBlocks
  \/ TickResumes
  \/ TickUpdate
  \/ TickDecay
  \/ \E s \in SessionIds : Pull(s)
  \/ \E s \in SessionIds : DropTap(s)
  \/ \E s \in SessionIds : AnalyzerRecv(s)
  \/ \E s \in SessionIds : AnalyzerExit(s)
  \/ \E s \in SessionIds : AnalyzerLock(s)
  \/ \E s \in SessionIds : AnalyzerClear(s)
  \/ \E s \in SessionIds : AnalyzerExtend(s)

Spec == Init /\ [][Next]_vars

\* update() and subscription() driven by every Message, AudioData included
\* (no code of the program sends AudioData: Spec is the program as it runs),
\* in the runs where the playback and analysis threads are not scheduled:
\* nothing is published, every Tick finds the slot empty and TickUpdate never
\* has anything to do.
InitEngine ==
  /\ InitApp
  /\ n_sessions = 0
  /\ sessions = [s \in SessionIds |-> NoSession]
  /\ decoded = [p \in Paths |-> OneWindow]
  /\ audio_msgs = MaxAudioData
  /\ mapper = NoMapper

NextEngine ==
  \/ LoadFile
  \/ Play
  \/ Pause
  \/ Stop
  \/ AudioData
  \/ TickPlaying
  \/ TickDecay

SpecEngine == InitEngine /\ [][NextEngine]_vars

\* The same, with the canvas: after update() the runtime calls view(), whose
\* canvas draws through canvas_cache.
NextView ==
  \/ NextEngine
  \/ Draw

SpecView == InitEngine /\ [][NextView]_vars

\* The program as in Spec, the Tick's hold of the mutex made visible:
\* lock() and the release of the guard are separate steps of the UI thread.
NextSlot ==
  \/ LoadFile
  \/ Play
  \/ Pause
  \/ Stop
  \/ TickLock
  \/ TickBlocks
  \/ TickRelease
  \/ TickUpdate
  \/ TickDecay
  \/ \E s \in SessionIds : Pull(s)
  \/ \E s \in SessionIds : DropTap(s)
  \/ \E s \in SessionIds : AnalyzerRecv(s)
  \/ \E s \in SessionIds : AnalyzerExit(s)
  \/ \E s \in SessionIds : AnalyzerLock(s)
  \/ \E s \in SessionIds : AnalyzerClear(s)
  \/ \E s \in SessionIds : AnalyzerExtend(s)

SpecSlot == Init /\ [][NextSlot]_vars

\* A Tap around any stream of at most MaxStreamLen samples, playing, its
\* Receiver in the hands of an arbitrary peer.
TapSamples == {1, 2}
MaxStreamLen == 2 * BUFFER_SIZE + 1

InitTap ==
  /\ InitApp
  /\ n_sessions = 1
  /\ \E src \in SeqsUpTo(TapSamples, MaxStreamLen) :
       sessions = [s \in SessionIds |->
                     IF s = 1 THEN NewTap(src, "playing") ELSE NoSession]
  /\ decoded = [p \in Paths |-> <<>>]
  /\ audio_msgs = 0
  /\ mapper = NoMapper

NextTap ==
  \/ Pull(1)
  \/ DropTap(1)
  \/ PeerRecv(1)
  \/ PeerDrop(1)

SpecTap == InitTap /\ [][NextTap]_vars

\* group_frequencies_into_bars on any vector of at most MaxBins magnitudes
InitMapper ==
  /\ InitApp
  /\ n_sessions = 0
  /\ sessions = [s \in SessionIds |-> NoSession]
  /\ decoded = [p \in Paths |-> <<>>]
  /\ audio_msgs = 0
  /\ \E input \in SeqsUpTo(MagValues, MaxBins) :
       mapper = [input |-> input, pc |-> "ready", bars |-> <<>>]

NextMapper == CallMapper

SpecMapper == InitMapper /\ [][NextMapper]_vars

\* ------------------------------------------------------ properties: the Tap
\* C1: the values returned by successive Tap::next calls are exactly the
\* wrapped stream's values, in order, none dropped, duplicated or delayed,
\* whether the receiver lives or not and whatever the queue holds; None is
\* returned only when the whole stream has been passed through.
C1_PassThrough ==
  \A s \in SessionIds :
    LET t == sessions[s]
    IN /\ Len(t.returned) = t.pos
       /\ \A i \in 1..Len(t.returned) : t.returned[i] = t.src[i]
       /\ t.ended => t.returned = t.src

C1_Witness ==
  \E s \in SessionIds :
    LET t == sessions[s]
    IN /\ t.ended
       /\ ~t.rx
       /\ t.send_err >= 1
       /\ Len(t.sent) = 2
       /\ Len(t.src) = MaxStreamLen
       /\ t.returned = t.src
       /\ t.src[1] # t.src[2]

\* what the Tap has sent and what it holds, between calls
C2_WindowInv ==
  \A s \in SessionIds :
    LET t == sessions[s]
    IN /\ Len(t.sent) = t.pos \div BUFFER_SIZE
       /\ \A k \in 1..Len(t.sent) :
            /\ Len(t.sent[k]) = BUFFER_SIZE
            /\ \A j \in 1..BUFFER_SIZE :
                 t.sent[k][j] = t.src[(k - 1) * BUFFER_SIZE + j]
       /\ \A q \in 1..Len(t.queue) : Len(t.queue[q]) = BUFFER_SIZE
       /\ Len(t.buf) < BUFFER_SIZE
       /\ Len(t.buf) = t.pos - Len(t.sent) * BUFFER_SIZE
       /\ \A j \in 1..Len(t.buf) : t.buf[j] = t.src[Len(t.sent) * BUFFER_SIZE + j]

\* one call of next: at the end of the stream, and when a window fills
C2_Call(s) ==
  LET t == sessions[s]
      u == sessions'[s]
  IN /\ t.pos = Len(t.src) =>
          /\ u.ended
          /\ u.buf = t.buf
          /\ u.sent = t.sent
          /\ u.queue = t.queue
          /\ u.returned = t.returned
     /\ (t.pos < Len(t.src) /\ Len(t.buf) = BUFFER_SIZE - 1) =>
          /\ u.buf = <<>>
          /\ Len(u.sent) = Len(t.sent) + 1
          /\ t.rx => u.queue = Append(t.queue, u.sent[Len(u.sent)])
     /\ (t.pos < Len(t.src) /\ Len(t.buf) < BUFFER_SIZE - 1) =>
          /\ u.sent = t.sent
          /\ u.queue = t.queue

\* C2: every value the Tap sends is a window of exactly BUFFER_SIZE samples,
\* the k-th being the k-th block of BUFFER_SIZE samples of the stream; the
\* accumulator is empty right after a send and shorter than BUFFER_SIZE
\* between calls; a partial window is never sent: at the end of the stream
\* next returns None, sends nothing and leaves the accumulator as it is.
C2_Windows ==
  /\ []C2_WindowInv
  /\ [][\A s \in SessionIds : Pull(s) => C2_Call(s)]_vars

C2_Witness ==
  \E s \in SessionIds :
    LET t == sessions[s]
    IN /\ t.ended
       /\ t.buf # <<>>
       /\ Len(t.sent) = 2
       /\ Len(t.queue) = 2
       /\ t.sent[1] # t.sent[2]

\* the call of next that fills a window while the Receiver is gone
C3_Call(s) ==
  LET t == sessions[s]
      u == sessions'[s]
  IN (~t.rx /\ t.pos < Len(t.src) /\ Len(t.buf) = BUFFER_SIZE - 1) =>
       /\ u.tap = "alive"
       /\ u.returned = Append(t.returned, t.src[t.pos + 1])
       /\ u.buf = <<>>
       /\ u.queue = t.queue
       /\ u.send_err = t.send_err + 1
       /\ ~u.ended

\* C3: when a window fills and the channel's Receiver no longer exists, the
\* send is discarded: next still returns the sample, nothing panics, the
\* accumulator is reset to empty, and every later sample is still passed
\* through until the stream ends.
C3_SendDiscarded ==
  /\ [](\A s \in SessionIds : sessions[s].tap # "panicked")
  /\ [](\A s \in SessionIds :
          (sessions[s].send_err > 0 /\ sessions[s].ended) =>
             sessions[s].returned = sessions[s].src)
  /\ [][\A s \in SessionIds : Pull(s) => C3_Call(s)]_vars

C3_Witness ==
  \E s \in SessionIds :
    LET t == sessions[s]
    IN /\ t.send_err = 2
       /\ t.ended
       /\ t.buf # <<>>
       /\ t.returned = t.src

\* ----------------------------------------- properties: the shared spectrum
\* the windows a decoded stream is cut into
WindowsOf(stream) ==
  {SubSeq(stream, (k - 1) * BUFFER_SIZE + 1, k * BUFFER_SIZE) :
     k \in 1..(Len(stream) \div BUFFER_SIZE)}

\* empty, or the BUFFER_SIZE / 2 magnitudes of one single window of a file
SlotWhole(d) ==
  \/ d = <<>>
  \/ /\ Len(d) = HalfSize
     /\ \E p \in Paths : \E w \in WindowsOf(decoded[p]) : d = Magnitudes(w)

\* the tick handler reading the slot
C4_Read ==
  /\ SlotWhole(audio_data)
  /\ \A s \in SessionIds : sessions[s].pc \notin {"clear", "extend"}
  /\ audio_data' = <<>>
  /\ maybe_mags' = audio_data

\* an analysis thread ending its publish
C4_Publish(s) ==
  /\ Len(audio_data') = HalfSize
  /\ audio_data' = Magnitudes(sessions[s].samples)
  /\ mutex = s

\* C4: under every interleaving of the analysis threads and Tick, what the
\* tick handler reads from the shared slot is empty or exactly the
\* BUFFER_SIZE / 2 magnitudes of one single window, never a mix, never a
\* slot that is cleared and not yet refilled, never a longer one; a publish
\* replaces the slot's content and does not append to it.
C4_AtomicPublish ==
  /\ [](mutex = None => SlotWhole(audio_data))
  /\ [][(TickPlaying \/ TickResumes) => C4_Read]_vars
  /\ [][\A s \in SessionIds : AnalyzerExtend(s) => C4_Publish(s)]_vars

C4_Witness ==
  /\ ui = "tick_lock"
  /\ AnyAbove(frequency_data)
  /\ \E s, r \in SessionIds :
       /\ s # r
       /\ sessions[s].pc = "extend"
       /\ sessions[r].pc = "lock"

\* ------------------------------------------- properties: the displayed bars
\* C5: in every state reached by LoadFile, Play, Pause, Stop, Tick and
\* AudioData messages, frequency_data holds exactly DEFAULT_NUM_BARS bars,
\* each within [MIN_BAR_HEIGHT, 150].
C5_BarSetBounds ==
  /\ Len(frequency_data) = DEFAULT_NUM_BARS
  /\ \A i \in 1..Len(frequency_data) :
       /\ frequency_data[i] >= MIN_BAR_HEIGHT
       /\ frequency_data[i] <= MAX_DISPLAY_HEIGHT

C5_Witness ==
  /\ audio_msgs = 0
  /\ decay_ticks > 0
  /\ \E i, j \in 1..Len(frequency_data) :
       /\ frequency_data[i] = MIN_BAR_HEIGHT
       /\ frequency_data[j] > MIN_BAR_HEIGHT
       /\ frequency_data[j] < DECAY_STEP + MIN_BAR_HEIGHT

\* C6: for every magnitude spectrum the mapper returns DEFAULT_NUM_BARS bars,
\* each within [MIN_BAR_HEIGHT, 150], bar i being the height of source bin
\* min((i mod half_bars) * stride, total_bins - 1), so that bar i equals bar
\* (i mod half_bars) for i >= half_bars.
C6_MapperLaw ==
  mapper.pc \notin {"idle", "ready"} =>
    LET total_bins == Len(mapper.input)
        hb == (DEFAULT_NUM_BARS + 1) \div 2
        stride == total_bins \div hb
        bin(i) == IF (i % hb) * stride < total_bins - 1
                  THEN (i % hb) * stride ELSE total_bins - 1
    IN /\ mapper.pc = "returned"
       /\ Len(mapper.bars) = DEFAULT_NUM_BARS
       /\ \A i \in 0..(DEFAULT_NUM_BARS - 1) :
            /\ mapper.bars[i + 1] >= MIN_BAR_HEIGHT
            /\ mapper.bars[i + 1] <= MAX_DISPLAY_HEIGHT
            /\ mapper.bars[i + 1] = BarHeight(mapper.input[bin(i) + 1])
            /\ i >= hb => mapper.bars[i + 1] = mapper.bars[(i % hb) + 1]

\* one decay tick, from the bars before to the bars after
C7_DecayCall ==
  /\ Len(frequency_data') = Len(frequency_data)
  /\ \A i \in 1..Len(frequency_data) :
       /\ frequency_data'[i] <= frequency_data[i]
       /\ frequency_data'[i] =
            IF frequency_data[i] - 8 * HScale > MIN_BAR_HEIGHT
            THEN frequency_data[i] - 8 * HScale ELSE MIN_BAR_HEIGHT
  /\ is_decaying' = (\E i \in 1..Len(frequency_data) :
                        frequency_data'[i] > MIN_BAR_HEIGHT)
  /\ ~is_decaying' => ~SubscriptionActive'

\* C7: once playback has left Playing and no Play follows, every Tick lowers
\* each bar by 8.0, clamped at MIN_BAR_HEIGHT, so the bars never rise from
\* one tick to the next; when all bars are at MIN_BAR_HEIGHT is_decaying
\* becomes false and the tick subscription is disabled; and, provided no
\* AudioData message is handled after the first decay tick, this happens
\* within ceil((150 - 4) / 8) ticks.
C7_BoundedDecay ==
  /\ [](~fed => decay_ticks < DecayBound)
  /\ [][TickDecay => C7_DecayCall]_vars

C7_Witness ==
  /\ ~fed
  /\ left_playing
  /\ ~is_playing
  /\ is_decaying
  /\ decay_ticks >= DecayBound - 2
  /\ \A i \in 1..Len(frequency_data) : frequency_data[i] > MIN_BAR_HEIGHT

\* C7 as it is written, with no condition on AudioData: once playback has
\* left Playing with a bar above MIN_BAR_HEIGHT and no Play has followed,
\* ceil((150 - 4) / 8) decay ticks bring every bar to MIN_BAR_HEIGHT.
C7_AsWritten == left_playing => decay_ticks < DecayBound

\* ------------------------------------------- properties: session life cycle
\* C8: when a session's stream is exhausted and its Tap dropped, every sender
\* of the session's channel is gone, so that its analysis thread's recv()
\* fails and the thread ends.
C8_SendersDropped ==
  \A s \in SessionIds :
    (sessions[s].tap = "dropped" /\ sessions[s].ended) =>
       /\ tap_sender # s
       /\ Disconnected(s)

\* the session a load has just built
FreshSession(s) ==
  /\ sink = s
  /\ tap_sender = s
  /\ sessions[s].sink = "paused"
  /\ sessions[s].tap = "alive"
  /\ sessions[s].src = decoded[file_path]
  /\ sessions[s].pos = 0
  /\ sessions[s].buf = <<>>
  /\ sessions[s].queue = <<>>
  /\ sessions[s].rx
  /\ sessions[s].pc = "recv"

\* a superseded session of which nothing is in use: its sink is stopped, the
\* application sends nothing on its channel, and its analysis thread holds
\* no window and has none left to receive
Retired(s) ==
  /\ sink # s
  /\ tap_sender # s
  /\ sessions[s].sink = "stopped"
  /\ sessions[s].queue = <<>>
  /\ sessions[s].pc \in {"recv", "done"}

\* C9: a Stop with a file loaded (the reload succeeding) leaves is_playing
\* false and a fresh channel, Tap, paused sink and analysis thread, and
\* nothing of the previous sessions' Tap, channel or analysis thread in use.
C9_StopRebuilds ==
  [][(Stop /\ file_path # None /\ n_sessions' = n_sessions + 1) =>
       /\ ~is_playing'
       /\ FreshSession(n_sessions)'
       /\ \A s \in 1..n_sessions : Retired(s)']_vars

\* C10: the Tick handler never waits for the shared slot's lock.
C10_TickNeverWaits == ui # "tick_lock"

\* ------------------------------------- properties: sessions and the slot
\* C11: only the analysis thread of the current session writes the shared
\* slot: after a Stop or a new load, no thread of a previous session clears
\* the slot or publishes a spectrum into it.
C11_SoleWriter ==
  [][\A s \in SessionIds :
       (AnalyzerClear(s) \/ AnalyzerExtend(s)) => s = sink]_vars

\* ------------------------------------------------ properties: the canvas
\* C12: whenever the canvas cache holds a frame, the frame shows the current
\* bars: every Tick or AudioData message that changed frequency_data has
\* cleared the cache.
C12_CacheShowsBars == canvas_cache # <<>> => canvas_cache = frequency_data

\* C13: the mapper applied to an empty spectrum returns DEFAULT_NUM_BARS bars,
\* all equal to MIN_BAR_HEIGHT, and does not fail.
C13_EmptySpectrum ==
  (mapper.input = <<>> /\ mapper.pc # "ready") =>
     /\ mapper.pc = "returned"
     /\ Len(mapper.bars) = DEFAULT_NUM_BARS
     /\ \A i \in 1..Len(mapper.bars) : mapper.bars[i] = MIN_BAR_HEIGHT

\* ------------------------------------------- properties: the playback phase
\* C14: a Tick handled while playing that finds the shared slot empty leaves
\* every bar as it was (neither decayed nor smoothed) and leaves is_playing
\* and is_decaying as they were.
C14_HoldWhenNoSpectrum ==
  [][((TickPlaying \/ TickResumes) /\ audio_data = <<>>) =>
       /\ frequency_data' = frequency_data
       /\ is_playing' = is_playing
       /\ is_decaying' = is_decaying
       /\ audio_data' = <<>>
       /\ ui' = "idle"]_vars

C14_Witness ==
  /\ is_playing
  /\ ui = "idle"
  /\ mutex = None
  /\ audio_data = <<>>
  /\ sink # None
  /\ sessions[sink].tap = "dropped"
  /\ sessions[sink].ended
  /\ \A i \in 1..Len(frequency_data) : frequency_data[i] > MIN_BAR_HEIGHT

\* C15: a Play handled when a sink exists sets is_playing and clears
\* is_decaying whatever the state before, paused, decaying, settled or just
\* rebuilt by Stop; a Tick then never takes the decay branch.
C15_PlayReentersActive ==
  /\ [][(Play /\ sink # None) => (is_playing' /\ ~is_decaying')]_vars
  /\ [][TickDecay => ~is_playing]_vars
  /\ [](is_playing => ~ENABLED TickDecay)

C15_Witness ==
  /\ is_playing
  /\ ~is_decaying
  /\ n_sessions = 2
  /\ sink = 2
  /\ sessions[2].sink = "playing"
  /\ sessions[2].pos = 0
  /\ sessions[1].sink = "stopped"
  /\ \A i \in 1..Len(frequency_data) : frequency_data[i] > MIN_BAR_HEIGHT

\* C16: no Tick is delivered before the first successful load, whatever
\* commands were issued before it.
C16_NoTickBeforeLoad ==
  [][(TickPlaying \/ TickBlocks \/ TickDecay) => is_loaded]_vars

\* C17: an analysis thread that finds the slot's mutex held by the tick
\* handler does not wait for it: it can go on at once (skipping the publish
\* of that window).
C17_AnalyzerNeverWaits ==
  \A s \in SessionIds :
    (sessions[s].pc = "lock" /\ mutex = UiThread) => ENABLED AnalyzerLock(s)

\* ---------------------------------------------- properties: failed loads
\* what a load attempt that failed must leave as it was
C18_Untouched ==
  /\ UNCHANGED <<sink, tap_sender, audio_receiver, is_loaded, frequency_data,
                 audio_data, mutex>>
  /\ ui' = "idle"
  /\ \A s \in SessionIds :
       /\ sessions'[s].tap = sessions[s].tap
       /\ sessions'[s].pc = sessions[s].pc
       /\ sessions'[s].rx = sessions[s].rx
       /\ sessions'[s].queue = sessions[s].queue

\* C18: a load attempt that fails (device, sink, open or decode) creates no
\* channel, Tap or analysis thread and leaves sink, tap_sender,
\* audio_receiver, is_loaded, is_playing and the bars as they were (is_playing
\* apart from what Stop itself does before it reloads); update() returns.
C18_FailedLoadLeavesNothing ==
  /\ [][(n_sessions' = n_sessions /\ ui = "idle" /\ LoadFile) =>
          (C18_Untouched /\ UNCHANGED <<is_playing, is_decaying, sessions>>)]_vars
  /\ [][(sink = None /\ n_sessions' = n_sessions /\ Play) =>
          (C18_Untouched /\ UNCHANGED <<is_playing, is_decaying, sessions>>)]_vars
  /\ [][(n_sessions' = n_sessions /\ is_decaying' /\ ~is_playing' /\ Stop) =>
          C18_Untouched]_vars

C18_Witness ==
  /\ file_path # None
  /\ sink = None
  /\ tap_sender = None
  /\ ~is_loaded
  /\ n_sessions = 0
  /\ is_decaying
  /\ \A s \in SessionIds : sessions[s] = NoSession

\* C19: is_playing and is_decaying are never both true; is_playing implies
\* that a sink exists; Play and Pause handled with no sink and no file path
\* leave is_playing, is_decaying and the bars as they were.
C19_PhaseFlags ==
  /\ [](~(is_playing /\ is_decaying))
  /\ [](is_playing => sink # None)
  /\ [][((Play \/ Pause) /\ sink = None /\ file_path = None) =>
          UNCHANGED <<is_playing, is_decaying, frequency_data>>]_vars

C19_Witness ==
  /\ is_decaying
  /\ ~is_playing
  /\ sink = None
  /\ file_path = None

\* the two windows of the file and the bars each one's spectrum maps to
C20_Bars(k) ==
  group_frequencies_into_bars(
    Magnitudes(SubSeq(FileStream, (k - 1) * BUFFER_SIZE + 1, k * BUFFER_SIZE)))

\* C20: a Tick that reads the slot leaves it empty and smooths once with
\* what it found (after it has dropped the guard), or not at all when it
\* found nothing; a publish overwrites whatever the slot held, so of several
\* spectra published between two ticks only the last reaches the bars.
C20_OneSmoothingPerSpectrum ==
  /\ [](Len(audio_data) <= HalfSize)
  /\ []((ui = "tick_update") <=> (maybe_mags # <<>>))
  /\ [][(TickPlaying \/ TickResumes) =>
          /\ audio_data' = <<>>
          /\ maybe_mags' = audio_data
          /\ frequency_data' = frequency_data]_vars
  /\ [][TickUpdate =>
          /\ frequency_data' =
               SmoothBars(frequency_data,
                          group_frequencies_into_bars(maybe_mags))
          /\ maybe_mags' = <<>>
          /\ ui' = "idle"]_vars
  /\ [][\A s \in SessionIds :
          AnalyzerExtend(s) => audio_data' = sessions[s].magnitudes]_vars

C20_Witness ==
  /\ is_playing
  /\ ui = "idle"
  /\ audio_data = <<>>
  /\ n_sessions = 1
  /\ sessions[1].ended
  /\ sessions[1].queue = <<>>
  /\ sessions[1].pc = "recv"
  /\ frequency_data =
       SmoothBars(SmoothBars(Repeat(MIN_BAR_HEIGHT, DEFAULT_NUM_BARS),
                             C20_Bars(1)), C20_Bars(2))
  /\ AnyAbove(frequency_data)

====
